---- MODULE Spec2Model ----
(***************************************************************************)
(* A model of the TaxAnalyzer classes of utils_app.py (revenue v1),        *)
(* utils_rev_app.py (revenue v2) and utils_expns_app.py (expenses):        *)
(* prep_data, the report of build_context (its sections, counts, means,    *)
(* sums, ratio lines and top-organizations ranking), and the get_response  *)
(* / chat conversation manager.                                            *)
(***************************************************************************)
EXTENDS Integers, Sequences, FiniteSets, TLC

VARIABLES
    conversation_history, \* self.conversation_history: Seq of [role, content]
    pc,                   \* "idle" | "awaiting" (blocked in client.messages.create)
    pending,              \* the request in flight: [entry, question, messages]
    result,               \* what the last finished call handed to its caller
    callRequests,         \* requests issued to the provider by the current/last call
    log,                  \* every successful exchange so far, oldest first
    histBefore,           \* conversation_history when the current/last call began
    raw,                  \* the DataFrame handed to prep_data / build_context
    variant,              \* which module's method ran: "v1" | "v2" | "expns"
    cleaned,              \* what prep_data produced: [status, df, replaced]
    context               \* what build_context produced: [status, sections, ..., top_orgs]

vars == <<conversation_history, pc, pending, result, callRequests, log, histBefore,
          raw, variant, cleaned, context>>

convVars == <<conversation_history, pc, pending, result, callRequests, log, histBefore>>
dataVars == <<raw, variant, cleaned, context>>

(***************************************************************************)
(* Bounds of the model.                                                    *)
(***************************************************************************)
MaxExchanges == 6   \* successful exchanges on one instance
MaxRows == 2        \* rows of a raw dataset handed to prep_data
MaxRankRows == 11   \* rows of a dataset handed to build_context's ranking
MaxChainRows == 3   \* rows of a dataset taken through prep_data and build_context

(***************************************************************************)
(* Cells of a DataFrame.  Every cell is a record of the same shape so that *)
(* any two cells can be compared:                                          *)
(*   k = "nan" | "none" | "nat"   the three nulls of pandas                *)
(*   k = "str"   a Python string, s                                        *)
(*   k = "num"   a number, n                                               *)
(*   k = "bool"  True (n = 1) or False (n = 0)                             *)
(*   k = "date"  a Timestamp, n (a day or year ordinal)                    *)
(***************************************************************************)
NaN == [k |-> "nan", s |-> "", n |-> 0]
None == [k |-> "none", s |-> "", n |-> 0]
NaT == [k |-> "nat", s |-> "", n |-> 0]
Str(x) == [k |-> "str", s |-> x, n |-> 0]
Num(i) == [k |-> "num", s |-> "", n |-> i]
Bool(b) == [k |-> "bool", s |-> "", n |-> IF b THEN 1 ELSE 0]
Date(d) == [k |-> "date", s |-> "", n |-> d]

\* Series.notnull() / dropna: NaN, None and NaT are null, "" is not.
IsNull(c) == c.k \in {"nan", "none", "nat"}

\* str.lower() on the strings the model uses.
LowerStr(s) ==
    CASE s = "NA" -> "na"
      [] s = "Acme" -> "acme"
      [] s = "Beta" -> "beta"
      [] s = "TRUE" -> "true"
      [] s = "Acme.org" -> "acme.org"
      [] OTHER -> s

\* str(x) of a cell, as Series.astype(str) gives it.
PyStr(c) ==
    CASE c.k = "str" -> c.s
      [] c.k = "nan" -> "nan"
      [] c.k = "none" -> "None"
      [] c.k = "nat" -> "NaT"
      [] c.k = "bool" -> IF c.n = 1 THEN "True" ELSE "False"
      [] OTHER -> "0"

\* The numeric strings of the model and their values (float(s) succeeds).
IsNumericStr(s) == s \in {"0", "250", "300"}
ParseNum(s) == CASE s = "0" -> 0 [] s = "250" -> 250 [] s = "300" -> 300 [] OTHER -> 0

\* The date strings of the model and their values.
IsDateStr(s) == s \in {"2020-01-01", "2020-12-31", "2021-06-30"}
ParseDate(s) ==
    CASE s = "2020-01-01" -> 20200101
      [] s = "2020-12-31" -> 20201231
      [] s = "2021-06-30" -> 20210630
      [] OTHER -> 0

(***************************************************************************)
(* DataFrames: [cols, index, rows, dtypes].  cols is the column order,     *)
(* index the row labels (the positions of the rows in the file that was    *)
(* read), rows[i] maps each column name to a cell, and dtypes maps each    *)
(* column name to its dtype: "object", "number", "bool" or "datetime".     *)
(* The dtype belongs to the column, not to its cells: a filter keeps it    *)
(* even when it removes every row.                                         *)
(***************************************************************************)
NoDF == [cols |-> <<>>, index |-> <<>>, rows |-> <<>>, dtypes |-> <<>>]

Range(s) == {s[i] : i \in 1..Len(s)}
ColSet(df) == Range(df.cols)
NRows(df) == Len(df.rows)

\* df[mask]: the rows at the positions in keep, in their order.
Take(df, keep) ==
    LET ps == SelectSeq([i \in 1..Len(df.rows) |-> i], LAMBDA i : i \in keep)
    IN  [cols |-> df.cols,
         index |-> [j \in 1..Len(ps) |-> df.index[ps[j]]],
         rows |-> [j \in 1..Len(ps) |-> df.rows[ps[j]]],
         dtypes |-> df.dtypes]

\* A column whose dtype is object because it holds at least one string (or
\* the frame was read with no rows): Series.str works on it.
HasStrAccessor(df, c) ==
    \/ NRows(df) = 0
    \/ \E i \in 1..NRows(df) : df.rows[i][c].k = "str"

(***************************************************************************)
(* utils_app.py: TaxAnalyzer.__init__, self.col_order                      *)
(***************************************************************************)
col_order ==
    << "ein", "business_name", "formation_year", "tax_period_begin",
       "tax_period_end", "total_revenue", "total_expenses", "net_income",
       "net_assets_boy", "net_assets_eoy", "total_contributions",
       "program_service_revenue", "program_services_expenses",
       "bond_proceeds", "royalties", "rental_property_income",
       "net_fundraising", "sales_of_assets", "net_inventory_sales",
       "investment_income", "other_revenue", "unrelated_business_revenue",
       "related_or_exempt_func_income", "operating_margin",
       "executive_compensation", "professional_fundraising_fees",
       "other_salaries_and_wages", "other_compensations",
       "total_employees", "total_volunteers", "fundraising_expenses",
       "management_and_general_expenses", "total_assets_boy",
       "total_assets_eoy", "total_liabilities_boy", "total_liabilities_eoy",
       "compensation_from_other_srcs", "contrct_rcvd_greater_than_100k",
       "total_comp_greater_than_150k", "indiv_rcvd_greater_than_100k",
       "tot_reportable_comp_rltd_org", "program_efficiency",
       "exclusion_amount", "group_return_for_affiliates",
       "total_gross_ubi", "voting_members_governing_body",
       "voting_members_independent", "website" >>

cols_to_lower == <<"business_name", "website">>

numeric_cols ==
    << "total_revenue", "net_assets_eoy", "net_assets_boy",
       "total_expenses", "total_contributions", "program_service_revenue",
       "total_comp_greater_than_150k", "compensation_from_other_srcs" >>

bool_like_cols ==
    << "group_return_for_affiliates", "compensation_from_other_srcs",
       "total_comp_greater_than_150k" >>

date_cols == <<"tax_period_begin", "tax_period_end">>

(***************************************************************************)
(* The steps of prep_data.                                                 *)
(***************************************************************************)
\* A faulty filter that forgets the empty string.
FilterPeriodEndNotNullOnly(df) ==
    Take(df, {i \in 1..NRows(df) : ~IsNull(df.rows[i]["tax_period_end"])})

\* df[df['tax_period_end'].notnull() & (df['tax_period_end'] != '')]
FilterPeriodEnd(df) ==
    Take(df, {i \in 1..NRows(df) :
                /\ ~IsNull(df.rows[i]["tax_period_end"])
                /\ df.rows[i]["tax_period_end"] # Str("")})

\* df.dropna(subset=['business_name'])
DropMissingName(df) ==
    Take(df, {i \in 1..NRows(df) : ~IsNull(df.rows[i]["business_name"])})

\* x.str.lower(): a string is lower-cased, anything else becomes NaN.
StrLower(c) == IF c.k = "str" THEN Str(LowerStr(c.s)) ELSE NaN

\* x.astype(str).str.lower(): every cell is first turned into its str().
AsTypeStrLower(c) == Str(LowerStr(PyStr(c)))

\* df.replace(['', 'NA', 'false', 'true'], [None, None, False, True]), one cell.
Replace(c) ==
    CASE c = Str("") -> None
      [] c = Str("NA") -> None
      [] c = Str("false") -> Bool(FALSE)
      [] c = Str("true") -> Bool(TRUE)
      [] OTHER -> c

ReplaceAll(df) ==
    [df EXCEPT !.rows = [i \in 1..Len(df.rows) |->
                            [c \in DOMAIN df.rows[i] |-> Replace(df.rows[i][c])]]]

\* pd.to_numeric(x, errors='coerce'), one cell.
ToNumeric(c) ==
    CASE c.k = "num" -> c
      [] c.k = "bool" -> Num(c.n)
      [] c.k = "str" -> IF IsNumericStr(c.s) THEN Num(ParseNum(c.s)) ELSE NaN
      [] OTHER -> NaN

\* x.astype(bool), one cell: Python truthiness (bool(float('nan')) is True).
AsBool(c) ==
    CASE c.k = "none" -> Bool(FALSE)
      [] c.k = "str" -> Bool(c.s # "")
      [] c.k = "num" -> Bool(c.n # 0)
      [] c.k = "bool" -> c
      [] OTHER -> Bool(TRUE)

\* pd.to_datetime(x, errors='coerce'), one cell.
ToDatetime(c) ==
    CASE c.k = "date" -> c
      [] c.k = "str" -> IF IsDateStr(c.s) THEN Date(ParseDate(c.s)) ELSE NaT
      [] OTHER -> NaT

\* pd.to_datetime(x, format='%Y', errors='coerce'), one cell.
ToYear(c) ==
    CASE c.k = "num" -> Date(c.n)
      [] OTHER -> NaT

\* a - b on two numeric columns, one cell: NaN if either is missing.
Sub(a, b) == IF a.k = "num" /\ b.k = "num" THEN Num(a.n - b.n) ELSE NaN

\* The conversion named kind, on one cell.
Convert(kind, c) ==
    CASE kind = "numeric" -> ToNumeric(c)
      [] kind = "bool" -> AsBool(c)
      [] kind = "date" -> ToDatetime(c)
      [] kind = "year" -> ToYear(c)
      [] kind = "lower" -> StrLower(c)
      [] OTHER -> AsTypeStrLower(c)

\* The dtype of the column the conversion named kind returns.
ConvertedDtype(kind) ==
    CASE kind = "numeric" -> "number"
      [] kind = "bool" -> "bool"
      [] kind = "date" -> "datetime"
      [] kind = "year" -> "datetime"
      [] OTHER -> "object"

\* df[c] = convert(df[c]), cell by cell.
MapCol(df, c, kind) ==
    [df EXCEPT !.rows = [i \in 1..Len(df.rows) |->
                            [df.rows[i] EXCEPT ![c] = Convert(kind, @)]],
               !.dtypes = [@ EXCEPT ![c] = ConvertedDtype(kind)]]

RECURSIVE MapCols(_, _, _)
\* for col in cs: df[col] = convert(df[col])
MapCols(df, cs, kind) ==
    IF cs = <<>> THEN df
    ELSE MapCols(MapCol(df, Head(cs), kind), Tail(cs), kind)

\* df['net_income'] = df['total_revenue'] - df['net_assets_eoy']
AddNetIncome(df) ==
    [cols |-> IF "net_income" \in ColSet(df) THEN df.cols
              ELSE Append(df.cols, "net_income"),
     index |-> df.index,
     rows |-> [i \in 1..Len(df.rows) |->
                 [c \in DOMAIN df.rows[i] \cup {"net_income"} |->
                     IF c = "net_income"
                     THEN Sub(df.rows[i]["total_revenue"], df.rows[i]["net_assets_eoy"])
                     ELSE df.rows[i][c]]],
     dtypes |-> [c \in DOMAIN df.dtypes \cup {"net_income"} |->
                   IF c = "net_income" THEN "number" ELSE df.dtypes[c]]]

\* df[self.col_order]
Reorder(df) ==
    [cols |-> col_order,
     index |-> df.index,
     rows |-> [i \in 1..Len(df.rows) |-> [c \in Range(col_order) |-> df.rows[i][c]]],
     dtypes |-> [c \in Range(col_order) |-> df.dtypes[c]]]

\* df.reindex(columns=self.col_order): a missing column is filled with NaN.
Reindex(df) ==
    [cols |-> col_order,
     index |-> df.index,
     rows |-> [i \in 1..Len(df.rows) |->
                 [c \in Range(col_order) |->
                     IF c \in DOMAIN df.rows[i] THEN df.rows[i][c] ELSE NaN]],
     dtypes |-> [c \in Range(col_order) |->
                   IF c \in DOMAIN df.dtypes THEN df.dtypes[c] ELSE "number"]]

Failed(kind) == [status |-> kind, df |-> NoDF, replaced |-> NoDF]

\* A faulty selection that fills what is missing instead of raising.
SelectCanonicalReindex(df, replaced) ==
    [status |-> "ok", df |-> Reindex(df), replaced |-> replaced]

\* cleaned_dataframe = df[self.col_order]; return cleaned_dataframe
SelectCanonical(df, replaced) ==
    IF Range(col_order) \ ColSet(df) # {} THEN Failed("KeyError")
    ELSE [status |-> "ok", df |-> Reorder(df), replaced |-> replaced]

(***************************************************************************)
(* utils_app.py: TaxAnalyzer.prep_data.  status is "ok" or the exception   *)
(* the method raises; replaced is the local df after line 54.              *)
(***************************************************************************)
PrepDataV1(df) ==
    IF "tax_period_end" \notin ColSet(df) THEN Failed("KeyError")
    ELSE IF "business_name" \notin ColSet(df) THEN Failed("KeyError")
    ELSE IF ~(Range(cols_to_lower) \subseteq ColSet(df)) THEN Failed("KeyError")
    ELSE
    LET d2 == DropMissingName(FilterPeriodEnd(df)) IN
    IF \E c \in Range(cols_to_lower) : ~HasStrAccessor(df, c)
    THEN Failed("AttributeError")
    ELSE
    LET d4 == ReplaceAll(MapCols(d2, cols_to_lower, "lower")) IN
    IF ~(Range(numeric_cols) \cup Range(bool_like_cols) \cup Range(date_cols)
            \cup {"formation_year"} \subseteq ColSet(df))
    THEN Failed("KeyError")
    ELSE
    LET d5 == MapCols(d4, numeric_cols, "numeric")
        d6 == MapCols(d5, bool_like_cols, "bool")
        d7 == MapCol(MapCols(d6, date_cols, "date"), "formation_year", "year")
        d8 == AddNetIncome(d7)
    IN  SelectCanonical(d8, d4)

(***************************************************************************)
(* utils_rev_app.py: TaxAnalyzer.prep_data                                 *)
(***************************************************************************)
\* name.strip().lower() on the header names the model uses.
NormalizeName(c) ==
    CASE c = "EIN" -> "ein"
      [] c = " Business_Name" -> "business_name"
      [] c = "Website " -> "website"
      [] c = "TAX_PERIOD_END" -> "tax_period_end"
      [] c = "Total_Revenue" -> "total_revenue"
      [] c = "Program_Service_1_TotalRevenueColumnAmt"
            -> "program_service_1_totalrevenuecolumnamt"
      [] c = "Program_Service_1_Desc" -> "program_service_1_desc"
      [] OTHER -> c

\* df.columns = df.columns.str.strip().str.lower()
NormalizeColumns(df) ==
    [cols |-> [j \in 1..Len(df.cols) |-> NormalizeName(df.cols[j])],
     index |-> df.index,
     rows |-> [i \in 1..Len(df.rows) |->
                 [c \in {NormalizeName(x) : x \in DOMAIN df.rows[i]} |->
                     df.rows[i][CHOOSE x \in DOMAIN df.rows[i] : NormalizeName(x) = c]]],
     dtypes |-> [c \in {NormalizeName(x) : x \in DOMAIN df.dtypes} |->
                   df.dtypes[CHOOSE x \in DOMAIN df.dtypes : NormalizeName(x) = c]]]

\* re.match(r'program_service_\d+_totalrevenuecolumnamt', col, re.IGNORECASE)
IsProgramServiceAmt(c) ==
    c \in {"program_service_1_totalrevenuecolumnamt",
           "program_service_2_totalrevenuecolumnamt"}

\* re.match(r'program_service_\d+_desc', col, re.IGNORECASE)
IsProgramServiceDesc(c) ==
    c \in {"program_service_1_desc", "program_service_2_desc"}

\* df.select_dtypes(include='number'): the columns of a numeric dtype.
NumberCols(df) == {c \in ColSet(df) : df.dtypes[c] = "number"}

\* for col in numeric_cols: df[col] = pd.to_numeric(df[col], errors='coerce')
CoerceNumberCols(df) ==
    LET nc == NumberCols(df)
    IN  [df EXCEPT !.rows = [i \in 1..Len(df.rows) |->
            [c \in DOMAIN df.rows[i] |->
                IF c \in nc THEN ToNumeric(df.rows[i][c]) ELSE df.rows[i][c]]]]

RECURSIVE MapColsIfPresent(_, _, _)
\* for col in cs: if col in df.columns: df[col] = f(df[col])
MapColsIfPresent(df, cs, kind) ==
    IF cs = <<>> THEN df
    ELSE LET d1 == IF Head(cs) \in ColSet(df)
                   THEN MapCols(df, <<Head(cs)>>, kind)
                   ELSE df
         IN  MapColsIfPresent(d1, Tail(cs), kind)

RECURSIVE SumNumbers(_, _)
\* df[cols].sum(axis=1) for one row: NaN is skipped.
SumNumbers(row, cs) ==
    IF cs = <<>> THEN 0
    ELSE (IF row[Head(cs)].k \in {"num", "bool"} THEN row[Head(cs)].n ELSE 0)
            + SumNumbers(row, Tail(cs))

RECURSIVE JoinStrs(_, _)
\* ', '.join(x.dropna()) over the astype(str) cells of one row.
JoinStrs(row, cs) ==
    IF cs = <<>> THEN ""
    ELSE IF Len(cs) = 1 THEN PyStr(row[Head(cs)])
    ELSE PyStr(row[Head(cs)]) \o ", " \o JoinStrs(row, Tail(cs))

\* df['total_program_service_revenue'] = ...; df['program_service_descriptions'] = ...
AddProgramService(df) ==
    LET amt == SelectSeq(df.cols, IsProgramServiceAmt)
        desc == SelectSeq(df.cols, IsProgramServiceDesc)
        added == {"total_program_service_revenue", "program_service_descriptions"}
    IN  [cols |-> df.cols \o SelectSeq(<<"total_program_service_revenue",
                                         "program_service_descriptions">>,
                                       LAMBDA c : c \notin ColSet(df)),
         index |-> df.index,
         rows |-> [i \in 1..Len(df.rows) |->
                    [c \in DOMAIN df.rows[i] \cup added |->
                        CASE c = "total_program_service_revenue"
                                -> Num(SumNumbers(df.rows[i], amt))
                          [] c = "program_service_descriptions"
                                -> Str(JoinStrs(df.rows[i], desc))
                          [] OTHER -> df.rows[i][c]]],
         dtypes |-> [c \in DOMAIN df.dtypes \cup added |->
                        CASE c = "total_program_service_revenue" -> "number"
                          [] c = "program_service_descriptions" -> "object"
                          [] OTHER -> df.dtypes[c]]]

PrepDataV2(df0) ==
    LET df == NormalizeColumns(df0) IN
    IF "tax_period_end" \notin ColSet(df) THEN Failed("KeyError")
    ELSE IF "business_name" \notin ColSet(df) THEN Failed("KeyError")
    ELSE
    LET d2 == DropMissingName(FilterPeriodEnd(df))
        d4 == ReplaceAll(MapColsIfPresent(d2, cols_to_lower, "astype_lower"))
        d5 == CoerceNumberCols(d4)
        d6 == MapColsIfPresent(d5, date_cols, "date")
        d7 == IF "formation_year" \in ColSet(d6)
              THEN MapCol(d6, "formation_year", "year") ELSE d6
    IN  [status |-> "ok", df |-> AddProgramService(d7), replaced |-> d4]

(***************************************************************************)
(* build_context: the top-organizations list and the aggregates.           *)
(***************************************************************************)
TopN == 10

\* The column the list is ranked by, the name column, and the columns the
\* method reads (a missing one raises KeyError).
RankCol(v) == IF v = "expns" THEN "TotalAmt" ELSE "total_revenue"
NameCol(v) == IF v = "expns" THEN "BusinessName" ELSE "business_name"
ContextCols(v) ==
    CASE v = "v1" ->
            {"business_name", "tax_period_end", "total_revenue", "total_assets_eoy",
             "net_income", "total_employees", "total_volunteers", "website",
             "operating_margin", "program_efficiency", "program_services_expenses",
             "total_expenses", "executive_compensation", "total_comp_greater_than_150k"}
      [] v = "v2" ->
            {"business_name", "tax_period_end", "total_revenue",
             "total_program_service_revenue", "program_service_descriptions"}
      [] OTHER ->
            {"BusinessName", "TaxPeriodBegin", "TaxPeriodEnd", "ProgramServicesAmt",
             "ManagementAndGeneralAmt", "FundraisingAmt", "Group", "TotalAmt"}

\* The position of the first largest value of column c among the positions ps.
FirstMax(df, c, ps) ==
    CHOOSE i \in ps :
        \A j \in ps : \/ df.rows[j][c].n < df.rows[i][c].n
                      \/ df.rows[j][c].n = df.rows[i][c].n /\ i <= j

\* The position of the first smallest value of column c among the positions ps.
FirstMin(df, c, ps) ==
    CHOOSE i \in ps :
        \A j \in ps : \/ df.rows[j][c].n > df.rows[i][c].n
                      \/ df.rows[j][c].n = df.rows[i][c].n /\ i <= j

RECURSIVE SelectLargest(_, _, _, _)
\* The positions of the n largest values among ps, largest first, ties in
\* row order (keep='first').
SelectLargest(n, df, c, ps) ==
    IF n = 0 \/ ps = {} THEN <<>>
    ELSE LET m == FirstMax(df, c, ps)
         IN  <<m>> \o SelectLargest(n - 1, df, c, ps \ {m})

RECURSIVE SelectSmallest(_, _, _, _)
SelectSmallest(n, df, c, ps) ==
    IF n = 0 \/ ps = {} THEN <<>>
    ELSE LET m == FirstMin(df, c, ps)
         IN  <<m>> \o SelectSmallest(n - 1, df, c, ps \ {m})

\* The rows at the positions qs, in that order.
RowsAt(df, qs) ==
    [cols |-> df.cols,
     index |-> [j \in 1..Len(qs) |-> df.index[qs[j]]],
     rows |-> [j \in 1..Len(qs) |-> df.rows[qs[j]]],
     dtypes |-> df.dtypes]

\* df.nsmallest(n, c): the ranking with the order inverted.
NSmallest(n, df, c) ==
    LET valued == {i \in 1..NRows(df) : ~IsNull(df.rows[i][c])}
        nulls == SelectSeq([i \in 1..NRows(df) |-> i], LAMBDA i : i \notin valued)
        qs == SelectSmallest(n, df, c, valued) \o nulls
    IN  RowsAt(df, SubSeq(qs, 1, IF Len(qs) < n THEN Len(qs) ELSE n))

\* df.nlargest(n, c): the n rows with the largest values of c, largest
\* first; rows without a value come last and only when fewer than n rows
\* have one.
NLargest(n, df, c) ==
    LET valued == {i \in 1..NRows(df) : ~IsNull(df.rows[i][c])}
        nulls == SelectSeq([i \in 1..NRows(df) |-> i], LAMBDA i : i \notin valued)
        qs == SelectLargest(n, df, c, valued) \o nulls
    IN  RowsAt(df, SubSeq(qs, 1, IF Len(qs) < n THEN Len(qs) ELSE n))

\* nlargest refuses a column of object dtype, whatever its cells are and
\* even when it has none.
RankableDtype(df, c) == df.dtypes[c] # "object"

\* The columns whose min, max, mean or sum is written with a numeric
\* format (:,.2f or :,.0f): a string there raises.
FormattedCols(v) ==
    CASE v = "v1" ->
            {"total_revenue", "total_assets_eoy", "net_income", "total_employees",
             "total_volunteers", "program_efficiency", "program_services_expenses",
             "total_expenses", "executive_compensation"}
      [] v = "v2" -> {"total_revenue", "total_program_service_revenue"}
      [] OTHER -> {"ProgramServicesAmt", "ManagementAndGeneralAmt", "FundraisingAmt"}

\* The columns read through .dt (df['tax_period_end'].dt.year): anything
\* but a datetime column raises AttributeError.
DtCols(v) == IF v = "expns" THEN {} ELSE {"tax_period_end"}

\* The fixed headers of the report: its title and its numbered sections.
Sections(v) ==
    CASE v = "v1" ->
            << "COMPREHENSIVE DATASET ANALYSIS:", "1. DATASET OVERVIEW:",
               "2. FINANCIAL METRICS:", "3. ORGANIZATIONAL METRICS:",
               "4. REVENUE TRENDS BY YEAR:", "5. TOP ORGANIZATIONS BY REVENUE:",
               "6. PROGRAM EFFICIENCY METRICS:", "7. COMPENSATION INSIGHTS:",
               "8. FULL DATASET ACCESS:" >>
      [] v = "v2" ->
            << "COMPREHENSIVE DATASET ANALYSIS:", "1. DATASET OVERVIEW:",
               "2. FINANCIAL METRICS:", "3. PROGRAM SERVICE METRICS:",
               "4. REVENUE TRENDS BY YEAR:", "5. TOP ORGANIZATIONS BY REVENUE:" >>
      [] OTHER ->
            << "DETAILED EXPENSE ANALYSIS CONTEXT:", "1. DATASET OVERVIEW:",
               "2. GRANULAR EXPENSE BREAKDOWN:", "3. EXPENSE INSIGHTS BY GROUP:",
               "4. EXPENSE TRENDS OVER TIME:",
               "5. TOP ORGANIZATIONS BY TOTAL EXPENSES:", "6. EFFICIENCY METRICS:",
               "7. FULL DATASET ACCESS:" >>

\* Series.count(): the cells that are not null.
CountNonNull(df, c) == Cardinality({i \in 1..NRows(df) : ~IsNull(df.rows[i][c])})

\* A faulty count of organizations: every value, repeated or not.
NUniqueWithRepeats(df, c) == Cardinality({i \in 1..NRows(df) : ~IsNull(df.rows[i][c])})

\* Series.nunique(): the distinct values that are not null.
NUnique(df, c) ==
    Cardinality({df.rows[i][c] : i \in {j \in 1..NRows(df) : ~IsNull(df.rows[j][c])}})

RECURSIVE SumTo(_, _, _)
\* The sum of the numbers (and booleans) in the first i cells of column c;
\* nulls are skipped.
SumTo(df, c, i) ==
    IF i = 0 THEN 0
    ELSE (IF df.rows[i][c].k \in {"num", "bool"} THEN df.rows[i][c].n ELSE 0)
            + SumTo(df, c, i - 1)

\* Series.sum() as a scalar [n, py]: a numpy number for a column of a
\* numeric dtype, a Python number (py) for a column of object dtype.
ColSum(df, c) == [n |-> SumTo(df, c, NRows(df)), py |-> df.dtypes[c] = "object"]

\* len(df): a Python int.
PyLen(df) == [n |-> NRows(df), py |-> TRUE]

\* A number as f"{x:,.2f}" writes it: n is x in hundredths, the nearest
\* to a / b (the model's quotients never fall halfway between two).
Fmt(a, b) == [k |-> "num", s |-> "", n |-> (200 * a + b) \div (2 * b)]

\* What numpy's division by zero gives besides nan.
Inf == [k |-> "inf", s |-> "", n |-> 0]

\* Series.mean(): the sum over the count of the cells that are not null,
\* nan when there is none.
Mean(df, c) ==
    IF CountNonNull(df, c) = 0 THEN NaN
    ELSE Fmt(SumTo(df, c, NRows(df)), CountNonNull(df, c))

\* a / b raises ZeroDivisionError only between two Python numbers; with a
\* numpy operand the division by zero is a warning.
DivRaises(a, b) == b.n = 0 /\ a.py /\ b.py

\* a / b * scale, as written with :,.2f: nan for 0 / 0, inf for x / 0.
Quotient(a, b, scale) ==
    IF b.n = 0 THEN (IF a.n = 0 THEN NaN ELSE Inf)
    ELSE Fmt(a.n * scale, b.n)

\* The ratio lines of the report: dividend, divisor and scale.
RatioLines(v, df) ==
    CASE v = "v1" ->
            << [a |-> ColSum(df, "program_services_expenses"),
                b |-> ColSum(df, "total_expenses"), scale |-> 100] >>
      [] v = "v2" ->
            << [a |-> ColSum(df, "total_program_service_revenue"),
                b |-> PyLen(df), scale |-> 1] >>
      [] OTHER ->
            << [a |-> ColSum(df, "ProgramServicesAmt"),
                b |-> ColSum(df, "TotalAmt"), scale |-> 100],
               [a |-> ColSum(df, "ManagementAndGeneralAmt"),
                b |-> ColSum(df, "TotalAmt"), scale |-> 100],
               [a |-> ColSum(df, "FundraisingAmt"),
                b |-> ColSum(df, "TotalAmt"), scale |-> 100] >>

\* The columns whose mean the report writes, average revenue first.
AveragedCols(v) ==
    CASE v = "v1" ->
            << "total_revenue", "net_income", "total_employees", "total_volunteers",
               "program_efficiency", "executive_compensation" >>
      [] v = "v2" -> << "total_revenue" >>
      [] OTHER -> << >>

\* The columns whose sum the report writes with :,.2f.
TotalledCols(v) ==
    CASE v = "v1" -> << >>
      [] v = "v2" -> << "total_program_service_revenue" >>
      [] OTHER -> << "ProgramServicesAmt", "ManagementAndGeneralAmt", "FundraisingAmt" >>

NoContext ==
    [status |-> "none", sections |-> <<>>, total_records |-> 0, unique_orgs |-> 0,
     averages |-> <<>>, totals |-> <<>>, ratios |-> <<>>, top_orgs |-> <<>>]

\* build_context(df) of the three modules: the section headers, df.shape[0],
\* the number of organizations, the means, sums and ratios it writes and,
\* per line of the top-organizations section, the row's label, name and
\* ranking value.  status is "ok" or the exception raised (with several
\* defects in one frame, the order below decides which is named).
BuildContext(v, df) ==
    IF ~(ContextCols(v) \subseteq ColSet(df))
    THEN [NoContext EXCEPT !.status = "KeyError"]
    ELSE IF \E c \in FormattedCols(v) : \E i \in 1..NRows(df) : df.rows[i][c].k = "str"
    THEN [NoContext EXCEPT !.status = "ValueError"]
    ELSE IF \E c \in DtCols(v) : \E i \in 1..NRows(df) : df.rows[i][c].k \notin {"date", "nat"}
    THEN [NoContext EXCEPT !.status = "AttributeError"]
    ELSE IF ~RankableDtype(df, RankCol(v))
    THEN [NoContext EXCEPT !.status = "TypeError"]
    ELSE IF \E j \in DOMAIN RatioLines(v, df) :
                DivRaises(RatioLines(v, df)[j].a, RatioLines(v, df)[j].b)
    THEN [NoContext EXCEPT !.status = "ZeroDivisionError"]
    ELSE LET top == NLargest(TopN, df, RankCol(v))
             lines == RatioLines(v, df)
         IN  [status |-> "ok",
              sections |-> Sections(v),
              total_records |-> NRows(df),
              unique_orgs |-> NUnique(df, NameCol(v)),
              averages |-> [j \in DOMAIN AveragedCols(v) |-> Mean(df, AveragedCols(v)[j])],
              totals |-> [j \in DOMAIN TotalledCols(v) |->
                            Fmt(SumTo(df, TotalledCols(v)[j], NRows(df)), 1)],
              ratios |-> [j \in DOMAIN lines |->
                            Quotient(lines[j].a, lines[j].b, lines[j].scale)],
              top_orgs |-> [j \in 1..NRows(top) |->
                              [label |-> top.index[j],
                               name |-> top.rows[j][NameCol(v)],
                               amount |-> top.rows[j][RankCol(v)]]]]

(***************************************************************************)
(* The raw datasets prep_data is run on.  A row is the base row with at    *)
(* most one cell replaced; a dataset has at most MaxRows rows, labelled    *)
(* 0, 1, ... as read_csv labels them.                                      *)
(***************************************************************************)
SeqsUpTo(S, n) == UNION {[1..k -> S] : k \in 0..n}

\* The dtype read_csv gives column c of the rows rs: a numeric dtype for
\* numbers with or without blanks, bool for booleans only, object for
\* anything else, for a column holding a string and for a column of a
\* file with no data rows.
InferDtype(rs, c) ==
    IF rs = <<>> THEN "object"
    ELSE IF \A i \in 1..Len(rs) : rs[i][c].k \in {"num", "nan"} THEN "number"
    ELSE IF \A i \in 1..Len(rs) : rs[i][c].k = "bool" THEN "bool"
    ELSE "object"

\* pd.read_csv(file_path): the frame of a file with the header cs and the
\* data rows rs.
Frame(cs, rs) ==
    [cols |-> cs,
     index |-> [i \in 1..Len(rs) |-> i - 1],
     rows |-> rs,
     dtypes |-> [c \in Range(cs) |-> InferDtype(rs, c)]]

\* df.drop(columns=[c])
DropCol(df, c) ==
    [cols |-> SelectSeq(df.cols, LAMBDA x : x # c),
     index |-> df.index,
     rows |-> [i \in 1..Len(df.rows) |-> [x \in DOMAIN df.rows[i] \ {c} |-> df.rows[i][x]]],
     dtypes |-> [x \in DOMAIN df.dtypes \ {c} |-> df.dtypes[x]]]

BaseRowV1 ==
    [c \in Range(col_order) |->
        CASE c = "ein" -> Str("E1")
          [] c = "business_name" -> Str("Acme")
          [] c = "website" -> Str("Acme.org")
          [] c = "tax_period_begin" -> Str("2020-01-01")
          [] c = "tax_period_end" -> Str("2020-12-31")
          [] c = "formation_year" -> Num(1990)
          [] c = "group_return_for_affiliates" -> Bool(FALSE)
          [] c = "net_assets_eoy" -> Num(40)
          [] OTHER -> Num(100)]

OverridesV1 ==
    ({"tax_period_end"} \X {NaN, Str(""), Str("NA"), Str("notadate"), Str("2021-06-30")})
    \cup ({"business_name"} \X {NaN, Str(""), Str("NA"), Str("true"), Str("Beta")})
    \cup ({"website"} \X {NaN, Str("NA"), Str("false")})
    \cup ({"total_revenue"} \X {NaN, Str("abc"), Str("250"), Str("NA")})
    \cup ({"total_comp_greater_than_150k"} \X {Str("abc"), Str("false"), Num(0)})
    \cup ({"ein"} \X {Str(""), Str("NA"), Str("true"), Str("false")})

RowsV1 == {BaseRowV1} \cup {[BaseRowV1 EXCEPT ![o[1]] = o[2]] : o \in OverridesV1}

RawV1 ==
    {Frame(col_order, rs) : rs \in SeqsUpTo(RowsV1, MaxRows)}
    \cup {DropCol(Frame(col_order, rs), c) :
            rs \in SeqsUpTo({BaseRowV1}, 1), c \in Range(col_order)}

header_v2 ==
    << "EIN", " Business_Name", "Website ", "tax_period_begin", "TAX_PERIOD_END",
       "formation_year", "Total_Revenue",
       "Program_Service_1_TotalRevenueColumnAmt", "Program_Service_1_Desc" >>

BaseRowV2 ==
    [c \in Range(header_v2) |->
        CASE c = "EIN" -> Str("E1")
          [] c = " Business_Name" -> Str("Acme")
          [] c = "Website " -> Str("Acme.org")
          [] c = "tax_period_begin" -> Str("2020-01-01")
          [] c = "TAX_PERIOD_END" -> Str("2020-12-31")
          [] c = "formation_year" -> Num(1990)
          [] c = "Program_Service_1_Desc" -> Str("Beta")
          [] OTHER -> Num(100)]

OverridesV2 ==
    ({"TAX_PERIOD_END"} \X {NaN, Str(""), Str("NA"), Str("notadate")})
    \cup ({" Business_Name"} \X {NaN, Str(""), Str("NA"), Str("true")})
    \cup ({"Website "} \X {NaN, Str("NA")})
    \cup ({"Total_Revenue"} \X {NaN, Str("abc")})
    \cup ({"Program_Service_1_TotalRevenueColumnAmt"} \X {NaN})
    \cup ({"Program_Service_1_Desc"} \X {NaN, Str("true")})

RowsV2 == {BaseRowV2} \cup {[BaseRowV2 EXCEPT ![o[1]] = o[2]] : o \in OverridesV2}

RawV2 ==
    {Frame(header_v2, rs) : rs \in SeqsUpTo(RowsV2, MaxRows)}
    \cup {DropCol(Frame(header_v2, rs), c) :
            rs \in SeqsUpTo({BaseRowV2}, 1), c \in Range(header_v2)}

(***************************************************************************)
(* The conversation manager's state after __init__, and the data state     *)
(* before any method ran.                                                  *)
(***************************************************************************)
NoResult == [kind |-> "none", at |-> "", text |-> <<>>]
NoPending == [entry |-> "", question |-> "", messages |-> <<>>]
NoCleaned == [status |-> "none", df |-> NoDF, replaced |-> NoDF]
ConvInit ==
    /\ conversation_history = <<>>
    /\ pc = "idle"
    /\ pending = NoPending
    /\ result = NoResult
    /\ callRequests = 0
    /\ log = <<>>
    /\ histBefore = <<>>

(***************************************************************************)
(* SpecPrep: prep_data of utils_app.py and of utils_rev_app.py on every    *)
(* raw dataset of the model.                                               *)
(***************************************************************************)
InitPrep ==
    /\ ConvInit
    /\ \/ variant = "v1" /\ raw \in RawV1
       \/ variant = "v2" /\ raw \in RawV2
    /\ cleaned = NoCleaned
    /\ context = NoContext

RunPrepDataV1 ==
    /\ variant = "v1"
    /\ cleaned.status = "none"
    /\ cleaned' = PrepDataV1(raw)
    /\ UNCHANGED <<raw, variant, context>>
    /\ UNCHANGED convVars

RunPrepDataV2 ==
    /\ variant = "v2"
    /\ cleaned.status = "none"
    /\ cleaned' = PrepDataV2(raw)
    /\ UNCHANGED <<raw, variant, context>>
    /\ UNCHANGED convVars

NextPrep == RunPrepDataV1 \/ RunPrepDataV2

SpecPrep == InitPrep /\ [][NextPrep]_vars

(***************************************************************************)
(* Claims about prep_data (checked under SpecPrep).                        *)
(***************************************************************************)
\* The dataset as prep_data names its columns.
InputDF == IF variant = "v2" THEN NormalizeColumns(raw) ELSE raw

\* The two filter predicates, on a row of the input.
PassesFilter(row) ==
    /\ ~IsNull(row["tax_period_end"])
    /\ row["tax_period_end"] # Str("")
    /\ ~IsNull(row["business_name"])

\* The labels of the input rows that pass the filter, in input order.
ExpectedIndex ==
    LET ps == SelectSeq([i \in 1..NRows(InputDF) |-> i],
                        LAMBDA i : PassesFilter(InputDF.rows[i]))
    IN  [j \in 1..Len(ps) |-> InputDF.index[ps[j]]]

\* The input row labelled l (labels are positions - 1).
InputRow(l) == InputDF.rows[l + 1]

\* C4 (as claimed): every record of prep_data's output has a non-null,
\* non-empty period-end date and a non-null organization name.
C4_RecordInvariant ==
    cleaned.status = "ok" =>
        \A j \in 1..NRows(cleaned.df) :
            /\ ~IsNull(cleaned.df.rows[j]["tax_period_end"])
            /\ cleaned.df.rows[j]["tax_period_end"] # Str("")
            /\ ~IsNull(cleaned.df.rows[j]["business_name"])

\* C5: the rows of prep_data's output are exactly the input rows whose
\* period-end is neither null nor "" and whose organization name is not
\* null, in input order; so the output is no longer than the input.
C5_FilterExact ==
    cleaned.status = "ok" =>
        /\ cleaned.df.index = ExpectedIndex
        /\ NRows(cleaned.df) = Len(cleaned.df.index)
        /\ NRows(cleaned.df) <= NRows(raw)

\* C5's case: prep_data succeeded, kept a row and excluded a later or
\* earlier one for an empty-string period-end.
C5_Witness ==
    /\ cleaned.status = "ok"
    /\ NRows(cleaned.df) = 1
    /\ NRows(raw) = 2
    /\ \E i \in 1..2 : InputDF.rows[i]["tax_period_end"] = Str("")

\* C6 (as claimed): in every column of a surviving row an input cell that
\* is exactly "true", "false", "" or "NA" is True, False, null, null after
\* the substitution, the case-folded columns included; and substituting
\* again changes nothing.
C6_SentinelSubstitution ==
    cleaned.status = "ok" =>
        /\ \A j \in 1..NRows(cleaned.replaced) :
             \A c \in DOMAIN cleaned.replaced.rows[j] :
                LET in == InputRow(cleaned.replaced.index[j])[c]
                    out == cleaned.replaced.rows[j][c]
                IN  /\ in = Str("true") => out = Bool(TRUE)
                    /\ in = Str("false") => out = Bool(FALSE)
                    /\ in = Str("") => IsNull(out)
                    /\ in = Str("NA") => IsNull(out)
        /\ ReplaceAll(cleaned.replaced) = cleaned.replaced

\* C7 (as claimed): a non-numeric string in a designated numeric field of
\* a row that passes the filter yields null in that field of the output,
\* with no error and the row kept.
C7_NumericCoercion ==
    cleaned.status # "none" =>
        \A i \in 1..NRows(InputDF) :
            \A f \in Range(numeric_cols) \cap ColSet(InputDF) :
                LET in == InputDF.rows[i][f] IN
                (/\ "tax_period_end" \in ColSet(InputDF)
                 /\ "business_name" \in ColSet(InputDF)
                 /\ PassesFilter(InputDF.rows[i])
                 /\ in.k = "str" /\ ~IsNumericStr(in.s))
                => /\ cleaned.status = "ok"
                   /\ \E j \in 1..NRows(cleaned.df) :
                        /\ cleaned.df.index[j] = InputDF.index[i]
                        /\ IsNull(cleaned.df.rows[j][f])

\* The columns utils_app.py's prep_data cannot do without: the canonical
\* list less net_income, which it derives itself (line 75).
RequiredV1 == Range(col_order) \ {"net_income"}

\* C9 (as claimed): a raw dataset lacking a required field, or in
\* revenue-v1 any column of col_order, makes prep_data fail.
C9_AnyCanonicalColumn ==
    (/\ cleaned.status # "none"
     /\ \/ ~({"business_name", "tax_period_end"} \subseteq ColSet(InputDF))
        \/ variant = "v1" /\ ~(Range(col_order) \subseteq ColSet(InputDF)))
    => cleaned.status # "ok"

\* C9 (amended): a raw dataset lacking a required field, or in revenue-v1
\* any column of col_order other than the derived net_income, makes
\* prep_data fail with an error and return no dataset.
C9_StructuralAbort ==
    (/\ cleaned.status # "none"
     /\ \/ ~({"business_name", "tax_period_end"} \subseteq ColSet(InputDF))
        \/ variant = "v1" /\ ~(RequiredV1 \subseteq ColSet(InputDF)))
    => /\ cleaned.status \in {"KeyError", "AttributeError"}
       /\ cleaned.df = NoDF

\* C9's case: revenue-v1 input without "ein", a column only the final
\* selection reads, and prep_data raised KeyError.
C9_Witness ==
    /\ variant = "v1"
    /\ "ein" \notin ColSet(raw)
    /\ RequiredV1 \ {"ein"} \subseteq ColSet(raw)
    /\ cleaned.status = "KeyError"

(***************************************************************************)
(* SpecTop: build_context of the three modules on datasets of up to        *)
(* MaxRankRows records whose ranking values are laid out by a stride over  *)
(* a modulus: distinct under the modulus 13, with ties under 5.            *)
(***************************************************************************)
Strides == 1..3
Offsets == 0..2
Moduli == {5, 13}

RankValue(i, stride, offset, modulus) == ((i * stride + offset) % modulus) * 10
RankName(i) == IF i % 3 = 0 THEN Str("Beta") ELSE Str("Acme")

RankRowsV1(n, st, off, m) ==
    [i \in 1..n |-> [BaseRowV1 EXCEPT !["total_revenue"] = Num(RankValue(i, st, off, m)),
                                      !["business_name"] = RankName(i)]]

RankRowsV2(n, st, off, m) ==
    [i \in 1..n |-> [BaseRowV2 EXCEPT !["Total_Revenue"] = Num(RankValue(i, st, off, m)),
                                      ![" Business_Name"] = RankName(i)]]

header_expns ==
    << "BusinessName", "TaxPeriodBegin", "TaxPeriodEnd", "Group", "TotalAmt",
       "ProgramServicesAmt", "ManagementAndGeneralAmt", "FundraisingAmt" >>

RankRowsExpns(n, st, off, m) ==
    [i \in 1..n |->
        [c \in Range(header_expns) |->
            CASE c = "BusinessName" -> RankName(i)
              [] c = "TaxPeriodBegin" -> Str("2020-01-01")
              [] c = "TaxPeriodEnd" -> Str("2020-12-31")
              [] c = "Group" -> Str("Beta")
              [] c = "TotalAmt" -> Num(RankValue(i, st, off, m))
              [] OTHER -> Num(100)]]

\* What chat() hands to get_response: the cleaned frame (v1, v2) or the
\* frame as read (expenses).
RankFrames(v) ==
    {CASE v = "v1" -> PrepDataV1(Frame(col_order, RankRowsV1(n, st, off, m))).df
       [] v = "v2" -> PrepDataV2(Frame(header_v2, RankRowsV2(n, st, off, m))).df
       [] OTHER -> Frame(header_expns, RankRowsExpns(n, st, off, m)) :
        n \in 0..MaxRankRows, st \in Strides, off \in Offsets, m \in Moduli}

\* Cleaned frames left without a row: every record of the file lacked a
\* period-end date (and one of them held text where a number belongs).
EmptiedFrames(v) ==
    CASE v = "v1" ->
            {PrepDataV1(Frame(col_order, <<r>>)).df :
                r \in {[BaseRowV1 EXCEPT !["tax_period_end"] = NaN],
                       [BaseRowV1 EXCEPT !["tax_period_end"] = NaN,
                                         !["program_services_expenses"] = Str("abc")]}}
      [] v = "v2" ->
            {PrepDataV2(Frame(header_v2, <<r>>)).df :
                r \in {[BaseRowV2 EXCEPT !["TAX_PERIOD_END"] = NaN],
                       [BaseRowV2 EXCEPT !["TAX_PERIOD_END"] = NaN,
                                         !["Total_Revenue"] = Str("abc")]}}
      [] OTHER -> {}

InitTop ==
    /\ ConvInit
    /\ variant \in {"v1", "v2", "expns"}
    /\ raw \in RankFrames(variant) \cup EmptiedFrames(variant)
    /\ cleaned = NoCleaned
    /\ context = NoContext

RunBuildContextV1 ==
    /\ variant = "v1"
    /\ context.status = "none"
    /\ context' = BuildContext("v1", raw)
    /\ UNCHANGED <<raw, variant, cleaned>>
    /\ UNCHANGED convVars

RunBuildContextV2 ==
    /\ variant = "v2"
    /\ context.status = "none"
    /\ context' = BuildContext("v2", raw)
    /\ UNCHANGED <<raw, variant, cleaned>>
    /\ UNCHANGED convVars

RunBuildContextExpns ==
    /\ variant = "expns"
    /\ context.status = "none"
    /\ context' = BuildContext("expns", raw)
    /\ UNCHANGED <<raw, variant, cleaned>>
    /\ UNCHANGED convVars

NextTop == RunBuildContextV1 \/ RunBuildContextV2 \/ RunBuildContextExpns

SpecTop == InitTop /\ [][NextTop]_vars

\* The ranking values of the dataset handed to build_context.
RankingCells == [i \in 1..NRows(raw) |-> raw.rows[i][RankCol(variant)]]

DistinctRanking ==
    /\ \A i \in 1..NRows(raw) : RankingCells[i].k = "num"
    /\ \A i, j \in 1..NRows(raw) : i # j => RankingCells[i] # RankingCells[j]

\* C8: for a dataset of n records with distinct ranking values the list
\* has 10 entries when n >= 10 and n when n < 10, in descending order of
\* the ranking field, and they are the records with the largest values.
C8_TopTen ==
    (context.status = "ok" /\ DistinctRanking) =>
        LET top == context.top_orgs
            n == NRows(raw)
            listed == {top[j].label : j \in 1..Len(top)}
        IN  /\ Len(top) = IF n >= 10 THEN 10 ELSE n
            /\ \A j \in 1..Len(top) - 1 : top[j].amount.n > top[j + 1].amount.n
            /\ \A j \in 1..Len(top) :
                  \E i \in 1..n : /\ raw.index[i] = top[j].label
                                  /\ RankingCells[i] = top[j].amount
                                  /\ raw.rows[i][NameCol(variant)] = top[j].name
            /\ \A i \in 1..n :
                  raw.index[i] \notin listed =>
                      \A j \in 1..Len(top) : RankingCells[i].n < top[j].amount.n

\* C8's case: more than ten records with distinct values were ranked and
\* the largest is not the first record.
C8_Witness ==
    /\ context.status = "ok"
    /\ DistinctRanking
    /\ NRows(raw) > 10
    /\ Len(context.top_orgs) = 10
    /\ context.top_orgs[1].label # raw.index[1]

\* C11 (as claimed): build_context on a dataset with no rows and every
\* column it reads raises nothing: the report holds every fixed section
\* header, counts and sums are written as zero and means and the ratio
\* lines (a zero sum over a zero sum or over a zero record count) as nan.
C11_EmptyDatasetReport ==
    (/\ context.status # "none"
     /\ NRows(raw) = 0
     /\ ContextCols(variant) \subseteq ColSet(raw))
    => /\ context.status = "ok"
       /\ context.sections = Sections(variant)
       /\ context.total_records = 0
       /\ context.unique_orgs = 0
       /\ context.top_orgs = <<>>
       /\ \A j \in DOMAIN context.averages : context.averages[j] = NaN
       /\ \A j \in DOMAIN context.totals : context.totals[j] = Fmt(0, 1)
       /\ Len(context.ratios) = Len(RatioLines(variant, raw))
       /\ \A j \in DOMAIN context.ratios : context.ratios[j] = NaN

(***************************************************************************)
(* SpecChain: what chat() of the two revenue modules does with the file    *)
(* before it asks: prep_data, then build_context on the cleaned frame.     *)
(* Row i of a dataset has the revenue 100 * i; its organization is one of  *)
(* two and its period-end is a date, blank or the empty string.            *)
(***************************************************************************)
ChainNames == {Str("Acme"), Str("Beta")}
ChainPeriodEnds == {Str("2020-12-31"), NaN, Str("")}

ChainRowsV1(names, ends) ==
    [i \in DOMAIN names |->
        [BaseRowV1 EXCEPT !["total_revenue"] = Num(100 * i),
                          !["business_name"] = names[i],
                          !["tax_period_end"] = ends[i]]]

ChainRowsV2(names, ends) ==
    [i \in DOMAIN names |->
        [BaseRowV2 EXCEPT !["Total_Revenue"] = Num(100 * i),
                          ![" Business_Name"] = names[i],
                          !["TAX_PERIOD_END"] = ends[i]]]

ChainFrames(v) ==
    UNION {{IF v = "v1" THEN Frame(col_order, ChainRowsV1(names, ends))
                        ELSE Frame(header_v2, ChainRowsV2(names, ends)) :
                names \in [1..n -> ChainNames], ends \in [1..n -> ChainPeriodEnds]} :
           n \in 1..MaxChainRows}

InitChain ==
    /\ ConvInit
    /\ variant \in {"v1", "v2"}
    /\ raw \in ChainFrames(variant)
    /\ cleaned = NoCleaned
    /\ context = NoContext

\* cleaned_df = self.prep_data(df)
ChainPrepData ==
    /\ cleaned.status = "none"
    /\ cleaned' = IF variant = "v1" THEN PrepDataV1(raw) ELSE PrepDataV2(raw)
    /\ UNCHANGED <<raw, variant, context>>
    /\ UNCHANGED convVars

\* context = self.build_context(df), on the cleaned frame
ChainBuildContext ==
    /\ cleaned.status = "ok"
    /\ context.status = "none"
    /\ context' = BuildContext(variant, cleaned.df)
    /\ UNCHANGED <<raw, variant, cleaned>>
    /\ UNCHANGED convVars

NextChain == ChainPrepData \/ ChainBuildContext

SpecChain == InitChain /\ [][NextChain]_vars

\* The positions of the input rows that have a period-end and a name.
Survivors == {i \in 1..NRows(InputDF) : PassesFilter(InputDF.rows[i])}

RECURSIVE RevenueOf(_)
\* The revenues of the input rows at the positions S, added up.
RevenueOf(S) ==
    IF S = {} THEN 0
    ELSE LET i == CHOOSE x \in S : TRUE
         IN  InputDF.rows[i]["total_revenue"].n + RevenueOf(S \ {i})

\* C12: end to end, prep_data drops exactly the rows without a period-end
\* and build_context on the result reports the number of surviving rows
\* as Total Records, the number of distinct names among them as Unique
\* Organizations, and the mean of their revenues alone as Average Revenue
\* (for revenues 100, 200, 300 with one row dropped: 2 records and the
\* mean of the two survivors).
C12_EndToEnd ==
    context.status # "none" =>
        /\ cleaned.status = "ok"
        /\ cleaned.df.index = ExpectedIndex
        /\ context.status = "ok"
        /\ context.total_records = Cardinality(Survivors)
        /\ context.unique_orgs =
              Cardinality({InputDF.rows[i]["business_name"] : i \in Survivors})
        /\ context.averages[1] =
              IF Survivors = {} THEN NaN
              ELSE Fmt(RevenueOf(Survivors), Cardinality(Survivors))

\* C12's case: revenues 100, 200, 300 from two organizations; the second
\* row, the only one of its organization, has no period-end; the report
\* counts 2 records and 1 organization and averages 100 and 300 to 200.00.
C12_Witness ==
    /\ NRows(raw) = 3
    /\ [i \in 1..3 |-> InputDF.rows[i]["total_revenue"]] = <<Num(100), Num(200), Num(300)>>
    /\ [i \in 1..3 |-> InputDF.rows[i]["business_name"]]
            = <<Str("Acme"), Str("Beta"), Str("Acme")>>
    /\ [i \in 1..3 |-> InputDF.rows[i]["tax_period_end"]]
            = <<Str("2020-12-31"), NaN, Str("2020-12-31")>>
    /\ cleaned.df.index = <<0, 2>>
    /\ context.status = "ok"
    /\ context.total_records = 2
    /\ context.unique_orgs = 1
    /\ context.averages[1] = [k |-> "num", s |-> "", n |-> 20000]

(***************************************************************************)
(* The conversation manager: get_response and chat.  A call runs up to     *)
(* client.messages.create, where it blocks (pc = "awaiting") until the     *)
(* provider answers or the request fails; Complete is the rest of it.      *)
(***************************************************************************)
HistoryLimit == 10

Questions == {"q1", "q2"}
Replies == {"r1", "r2"}

Turn(role, content) == [role |-> role, content |-> content]

\* The context text handed to the prompt: the placeholder, or the report
\* (named by its first line).
ContextText(v, present) ==
    IF ~present THEN "No data context available."
    ELSE IF v = "expns" THEN "DETAILED EXPENSE ANALYSIS CONTEXT:"
    ELSE "COMPREHENSIVE DATASET ANALYSIS:"

Suffix(v) ==
    IF v = "v1"
    THEN "\n\nProvide detailed analysis using all available metrics and historical data."
    ELSE "\n\nProvide detailed but concise and straight forward answer except when told to elaborate using available metrics and historical data."

\* full_prompt = f"{context}\n\nQuestion: {user_input}\n\n..."
FullPrompt(v, ctx, q) == <<ctx, "\n\nQuestion: ", q, Suffix(v)>>

\* messages=[*history, {"role": "user", "content": full_prompt}]
Messages(h, prompt) == h \o <<Turn("user", prompt)>>

\* A faulty truncation that keeps the oldest turns.
TruncateHead(h) == IF Len(h) > HistoryLimit THEN SubSeq(h, 1, HistoryLimit) ELSE h

\* A faulty truncation that keeps one turn less than the limit.
TruncateOdd(h) ==
    IF Len(h) > HistoryLimit THEN SubSeq(h, Len(h) - HistoryLimit + 2, Len(h)) ELSE h

\* if len(history) > 10: history = history[-10:]
Truncate(h) ==
    IF Len(h) > HistoryLimit THEN SubSeq(h, Len(h) - HistoryLimit + 1, Len(h)) ELSE h

\* A faulty record that stores the prompt that was sent, context included.
RecordExchangeStoresPrompt(h, q, r) ==
    Truncate(Append(Append(h, Turn("user", FullPrompt(variant, ContextText(variant, TRUE), q))),
                    Turn("assistant", <<r>>)))

\* The two appends and the truncation after a reply arrived.
RecordExchange(h, q, r) ==
    Truncate(Append(Append(h, Turn("user", <<q>>)), Turn("assistant", <<r>>)))

\* A faulty handler that stored the question before asking: the failed
\* call leaves its user turn behind.
HistoryAfterFailureKeepsTurn(h, q) == Append(h, Turn("user", <<q>>))

\* The except block of get_response does not touch the history.
HistoryAfterFailure(h, q) == h

\* A faulty except block that re-raises.
ChatExceptReraise(e, at) == [kind |-> "raised", at |-> at, text |-> <<e>>]

\* except Exception as e: return f"Error generating response: {str(e)}"
GetResponseExcept(e, at) ==
    [kind |-> "str", at |-> at, text |-> <<"Error generating response: ", e>>]

\* except Exception as e: return f"Error processing request: {str(e)}"
ChatExcept(e, at) ==
    [kind |-> "str", at |-> at, text |-> <<"Error processing request: ", e>>]

\* A faulty handler that asks again after a failure.
AfterFailureRetry(n) == [pc |-> "awaiting", requests |-> n + 1]

\* After a failed request the call returns: no second request.
AfterFailure(n) == [pc |-> "idle", requests |-> n]

\* How client.messages.create and response.content[0].text can fail.
RequestFailures == {"APIConnectionError", "AuthenticationError", "IndexError"}

\* The files chat() may find: none, or a frame of the instance's module.
Present(df) == [status |-> "ok", df |-> df]
ChatFiles(v) ==
    {[status |-> "FileNotFoundError", df |-> NoDF]} \cup
    CASE v = "v1" ->
            {Present(Frame(col_order, <<BaseRowV1>>)),
             Present(Frame(col_order, <<[BaseRowV1 EXCEPT !["website"] = NaN]>>)),
             Present(Frame(col_order, <<[BaseRowV1 EXCEPT !["tax_period_end"] = NaN]>>)),
             Present(Frame(col_order, <<[BaseRowV1 EXCEPT !["total_assets_eoy"] = Str("abc")]>>)),
             Present(DropCol(Frame(col_order, <<BaseRowV1>>), "ein"))}
      [] v = "v2" ->
            {Present(Frame(header_v2, <<BaseRowV2>>)),
             Present(Frame(header_v2, <<[BaseRowV2 EXCEPT !["Total_Revenue"] = Str("abc")]>>)),
             Present(DropCol(Frame(header_v2, <<BaseRowV2>>), " Business_Name"))}
      [] OTHER ->
            {Present(Frame(header_expns, RankRowsExpns(2, 1, 0, 13))),
             Present(Frame(header_expns,
                <<[RankRowsExpns(1, 1, 0, 13)[1] EXCEPT !["TotalAmt"] = Str("abc")]>>)),
             Present(DropCol(Frame(header_expns, RankRowsExpns(1, 1, 0, 13)), "Group"))}

\* prep_data as chat() of the module calls it; the expenses chat() does not.
PrepData(v, df) ==
    CASE v = "v1" -> PrepDataV1(df)
      [] v = "v2" -> PrepDataV2(df)
      [] OTHER -> [status |-> "ok", df |-> df, replaced |-> NoDF]

\* What one run of chat() on a file goes through before the request: the
\* outcome of read_csv, of prep_data and of build_context ("" when the
\* step is not reached).
StagesOfChat(v, file) ==
    IF file.status # "ok" THEN [load |-> file.status, clean |-> "", context |-> ""]
    ELSE LET c == PrepData(v, file.df)
         IN  IF c.status # "ok" THEN [load |-> "ok", clean |-> c.status, context |-> ""]
             ELSE [load |-> "ok", clean |-> "ok",
                   context |-> BuildContext(v, c.df).status]

Variants == {"v1", "v2", "expns"}

\* The stage outcomes chat() can meet, per module.
ChatStages == [v \in Variants |-> {StagesOfChat(v, f) : f \in ChatFiles(v)}]

\* The frames get_response may be handed directly: a file's frame as
\* read, or as cleaned.
DirectFrames(v) ==
    LET read == {f.df : f \in {g \in ChatFiles(v) : g.status = "ok"}}
    IN  read \cup {PrepData(v, df).df : df \in {d \in read : PrepData(v, d).status = "ok"}}

\* The outcomes of build_context on them.
DirectStages == [v \in Variants |-> {BuildContext(v, df).status : df \in DirectFrames(v)}]

\* get_response up to the request: either build_context failed (ctx is
\* the exception) and the error text is returned, or the request is sent
\* and the call blocks.
GetResponseBegin(entry, q, present, ctx) ==
    /\ histBefore' = conversation_history
    /\ UNCHANGED <<conversation_history, log>>
    /\ IF ctx # "ok"
       THEN /\ result' = GetResponseExcept(ctx, "context")
            /\ callRequests' = 0
            /\ UNCHANGED <<pc, pending>>
       ELSE /\ pending' = [entry |-> entry, question |-> q,
                           messages |-> Messages(conversation_history,
                                FullPrompt(variant, ContextText(variant, present), q))]
            /\ callRequests' = 1
            /\ pc' = "awaiting"
            /\ UNCHANGED result

\* chat(query) up to the request.
Chat(q) ==
    /\ pc = "idle"
    /\ Len(log) < MaxExchanges
    /\ \E o \in ChatStages[variant] :
        IF o.load # "ok"
        THEN /\ result' = ChatExcept(o.load, "load")
             /\ callRequests' = 0
             /\ histBefore' = conversation_history
             /\ UNCHANGED <<conversation_history, log, pc, pending>>
        ELSE IF o.clean # "ok"
        THEN /\ result' = ChatExcept(o.clean, "clean")
             /\ callRequests' = 0
             /\ histBefore' = conversation_history
             /\ UNCHANGED <<conversation_history, log, pc, pending>>
        ELSE GetResponseBegin("chat", q, TRUE, o.context)
    /\ UNCHANGED dataVars

\* get_response(user_input, df) called directly, with or without a frame.
GetResponse(q) ==
    /\ pc = "idle"
    /\ Len(log) < MaxExchanges
    /\ \/ GetResponseBegin("get_response", q, FALSE, "ok")
       \/ \E ctx \in DirectStages[variant] :
            GetResponseBegin("get_response", q, TRUE, ctx)
    /\ UNCHANGED dataVars

\* The provider answered: the reply is stored and returned.
CompleteOk(r) ==
    /\ pc = "awaiting"
    /\ conversation_history' = RecordExchange(conversation_history, pending.question, r)
    /\ log' = Append(log, <<pending.question, r>>)
    /\ result' = [kind |-> "str", at |-> "done", text |-> <<r>>]
    /\ pc' = "idle"
    /\ pending' = NoPending
    /\ UNCHANGED <<callRequests, histBefore>>
    /\ UNCHANGED dataVars

\* The request failed, or the response had no text: the except block.
CompleteFail(e) ==
    /\ pc = "awaiting"
    /\ conversation_history' = HistoryAfterFailure(conversation_history, pending.question)
    /\ result' = GetResponseExcept(e, "request")
    /\ pc' = AfterFailure(callRequests).pc
    /\ callRequests' = AfterFailure(callRequests).requests
    /\ pending' = IF AfterFailure(callRequests).pc = "idle" THEN NoPending ELSE pending
    /\ UNCHANGED <<log, histBefore>>
    /\ UNCHANGED dataVars

Init ==
    /\ ConvInit
    /\ variant \in Variants
    /\ raw = NoDF
    /\ cleaned = NoCleaned
    /\ context = NoContext

Next ==
    \/ \E q \in Questions : Chat(q)
    \/ \E q \in Questions : GetResponse(q)
    \/ \E r \in Replies : CompleteOk(r)
    \/ \E e \in RequestFailures : CompleteFail(e)

Spec == Init /\ [][Next]_vars

(***************************************************************************)
(* Claims about the conversation manager (checked under Spec).             *)
(***************************************************************************)
\* Every turn of every successful exchange so far, oldest first.
AllTurns ==
    [k \in 1..2 * Len(log) |->
        IF k % 2 = 1 THEN Turn("user", <<log[(k + 1) \div 2][1]>>)
        ELSE Turn("assistant", <<log[k \div 2][2]>>)]

\* C1: after N successful exchanges the history holds min(2N, 10) turns,
\* and they are the most recent turns of those exchanges, oldest first
\* (for N > 5: the turns of the 5 most recent exchanges).
C1_HistoryTruncation ==
    pc = "idle" =>
        LET n == Len(log)
            len == IF 2 * n < 10 THEN 2 * n ELSE 10
        IN  /\ Len(conversation_history) = len
            /\ \A k \in 1..len :
                  conversation_history[k] = AllTurns[2 * n - len + k]

\* C1's case: a sixth exchange succeeded and pushed the first one out.
C1_Witness ==
    /\ pc = "idle"
    /\ Len(log) = 6
    /\ Len(conversation_history) = 10
    /\ log[1][1] # log[2][1]
    /\ conversation_history[1] = Turn("user", <<log[2][1]>>)

\* C2: when the completion request fails, get_response returns a string
\* carrying an error indicator, raises nothing, and the history is what
\* it was before the call.
C2_FailureLeavesHistory ==
    (pc = "idle" /\ result.at = "request") =>
        /\ result.kind = "str"
        /\ result.text[1] = "Error generating response: "
        /\ result.text[2] \in RequestFailures
        /\ conversation_history = histBefore

\* C2's case: a request failed on an instance that already holds turns.
C2_Witness ==
    /\ pc = "idle"
    /\ result.at = "request"
    /\ result.text[2] = "APIConnectionError"
    /\ Len(conversation_history) = 2

\* C3: whatever fails in loading, cleaning, context building or the
\* completion call, chat and get_response hand their caller a string:
\* no call ends by raising.
C3_AlwaysAString ==
    /\ result.kind \in {"none", "str"}
    /\ result.at \in {"load", "clean", "context", "request"} =>
          /\ Len(result.text) = 2
          /\ result.text[1] \in {"Error generating response: ",
                                 "Error processing request: "}

\* C3's case: chat() met a failure in prep_data and returned its text.
C3_Witness ==
    /\ result.at = "clean"
    /\ result.kind = "str"
    /\ result.text = <<"Error processing request: ", "KeyError">>

\* C10: a call issues at most one request, exactly one when loading,
\* cleaning and context building succeeded, none otherwise; a failed
\* request is not issued again: once the request is answered or fails the
\* call has returned and the component is idle.
C10_OneRequest ==
    /\ callRequests \in {0, 1}
    /\ pc \in {"idle", "awaiting"}
    /\ pc = "awaiting" => callRequests = 1 /\ pending # NoPending
    /\ pc = "idle" =>
          /\ pending = NoPending
          /\ result.at \in {"request", "done"} => callRequests = 1
          /\ result.at \in {"load", "clean", "context"} => callRequests = 0

\* C10's case: a request failed and the call returned with one request made.
C10_Witness ==
    /\ pc = "idle"
    /\ result.at = "request"
    /\ callRequests = 1

\* The context texts a prompt can open with.
ContextTexts == {ContextText(variant, present) : present \in BOOLEAN}

\* C13: the message list of a request is the whole stored history (at
\* most 10 turns, in stored order) followed by exactly one new user turn
\* whose content is the full prompt: context, question, instruction
\* suffix.  After a success the turn stored for the exchange holds the
\* bare question, so no stored turn, and no message of a request but the
\* last, carries a context.
C13_RequestShape ==
    /\ pc = "awaiting" =>
          LET msgs == pending.messages
              n == Len(conversation_history)
          IN  /\ n <= 10
              /\ Len(msgs) = n + 1
              /\ SubSeq(msgs, 1, n) = conversation_history
              /\ msgs[n + 1].role = "user"
              /\ \E ctx \in ContextTexts :
                    msgs[n + 1].content
                        = <<ctx, "\n\nQuestion: ", pending.question, Suffix(variant)>>
              /\ \A k \in 1..n : \A j \in DOMAIN msgs[k].content :
                    msgs[k].content[j] \notin ContextTexts
    /\ (pc = "idle" /\ result.at = "done") =>
          LET n == Len(conversation_history)
          IN  /\ n >= 2
              /\ conversation_history[n - 1] = Turn("user", <<log[Len(log)][1]>>)
              /\ conversation_history[n] = Turn("assistant", result.text)
    /\ \A k \in DOMAIN conversation_history :
          \A j \in DOMAIN conversation_history[k].content :
             conversation_history[k].content[j] \notin ContextTexts

\* C13's case: chat() sends a request on a full history whose exchanges
\* were asked with a dataset context: 11 messages, the last one the full
\* prompt, the one before the earlier reply, the earlier question bare.
C13_Witness ==
    /\ pc = "awaiting"
    /\ pending.entry = "chat"
    /\ Len(conversation_history) = 10
    /\ Len(pending.messages) = 11
    /\ pending.messages[11].content[1] = ContextText(variant, TRUE)
    /\ pending.messages[11].content[3] = "q2"
    /\ pending.messages[9] = Turn("user", <<"q1">>)
    /\ pending.messages[10].role = "assistant"

\* Even length, at most 10 turns, user first, roles alternating.
WellFormed(h) ==
    /\ Len(h) % 2 = 0
    /\ Len(h) <= 10
    /\ \A k \in DOMAIN h : h[k].role = IF k % 2 = 1 THEN "user" ELSE "assistant"

\* C14: whatever calls succeeded or failed, the history has even length
\* at most 10, starts with a user turn and alternates user / assistant;
\* the message list of a request alternates too and ends with a user
\* turn; and every pair of turns in the history is the question and the
\* reply of one exchange: truncation never splits one.
C14_HistoryWellFormed ==
    /\ WellFormed(conversation_history)
    /\ \A j \in 1..(Len(conversation_history) \div 2) :
          LET e == Len(log) - (Len(conversation_history) \div 2) + j
          IN  /\ e \in 1..Len(log)
              /\ conversation_history[2 * j - 1].content = <<log[e][1]>>
              /\ conversation_history[2 * j].content = <<log[e][2]>>
    /\ pc = "awaiting" =>
          /\ Len(pending.messages) % 2 = 1
          /\ \A k \in DOMAIN pending.messages :
                pending.messages[k].role = IF k % 2 = 1 THEN "user" ELSE "assistant"
          /\ pending.messages[Len(pending.messages)].role = "user"

\* C14's case: after a sixth success the history was cut to 10 turns and
\* begins with the question of the second exchange, its reply next.
C14_Witness ==
    /\ pc = "idle"
    /\ result.at = "done"
    /\ Len(log) = 6
    /\ Len(conversation_history) = 10
    /\ conversation_history[1].role = "user"
    /\ conversation_history[1].content = <<log[2][1]>>
    /\ conversation_history[2].content = <<log[2][2]>>
    /\ conversation_history[10] = Turn("assistant", <<log[6][2]>>)

====
